---- MODULE Spec2Model ----
(***************************************************************************)
(* A model of pyfs, an in-memory hierarchical file system                  *)
(* (src/src/pyfs/filesystem.py, src/src/pyfs/inode.py).                    *)
(*                                                                         *)
(* Strings are sequences of one-character strings, so that splitting a     *)
(* path on "/", stripping a leading "/" and joining components are         *)
(* computed as the code computes them.  A name such as ".." is             *)
(* <<".", ".">>, the path "/a/b" is <<"/", "a", "/", "b">>.                *)
(*                                                                         *)
(* Objects live in a heap `nodes`, indexed by identity.  A directory's     *)
(* child table is a sequence of <<name, node>> pairs in insertion order    *)
(* (a Python dict: assigning to an existing key keeps its position).       *)
(* Timestamps (ctime, mtime, atime) do not influence any control flow and  *)
(* are not part of the state.                                              *)
(***************************************************************************)
EXTENDS Integers, Sequences, FiniteSets, TLC

VARIABLES nodes, current, path_to_current, calls

vars == <<nodes, current, path_to_current, calls>>

----------------------------------------------------------------------------
(* Bounds of the model *)

\* number of inode objects constructed in a behaviour, the root included
MaxNodes == 5
\* number of calls of public methods in a behaviour
MaxCalls == 3

NodeIds == 0 .. (MaxNodes - 1)

----------------------------------------------------------------------------
(* Program constants *)

PATH_SEPARATOR == "/"
THIS_DIR_NAME == <<".">>
PARENT_DIR_NAME == <<".", ".">>

\* the identity of the root DirectoryNode built by FileSystem.__init__
Root == 0
\* Python's None, where a node is expected
None == -1

NoSuchFileOrDirectory == "NoSuchFileOrDirectory"
NotADirectory == "NotADirectory"
IsADirectory == "IsADirectory"
FileExists == "FileExists"
\* dict.pop(name) on a missing key: not a PyFSError
KeyError == "KeyError"
NoError == "none"

----------------------------------------------------------------------------
(* Strings *)

Front(s) == SubSeq(s, 1, Len(s) - 1)

Last(s) == s[Len(s)]

RECURSIVE SplitFrom(_, _)
SplitFrom(s, cur) ==
    IF s = <<>> THEN <<cur>>
    ELSE IF Head(s) = PATH_SEPARATOR
         THEN <<cur>> \o SplitFrom(Tail(s), <<>>)
         ELSE SplitFrom(Tail(s), Append(cur, Head(s)))

\* name.split("/"): never empty, "" splits to [""]
Split(s) == SplitFrom(s, <<>>)

RECURSIVE Join(_)
\* "/".join(parts)
Join(parts) ==
    IF parts = <<>> THEN <<>>
    ELSE IF Len(parts) = 1 THEN parts[1]
    ELSE parts[1] \o <<PATH_SEPARATOR>> \o Join(Tail(parts))

\* name.startswith("/")
StartsWithSeparator(name) == name # <<>> /\ Head(name) = PATH_SEPARATOR

\* name[1:] if is_root_relative else name
StripRoot(name) == IF StartsWithSeparator(name) THEN Tail(name) ELSE name

\* *parent_dirs, requested = name.split("/"); "/".join(parent_dirs)
ParentPath(name) == Join(Front(Split(name)))

Requested(name) == Last(Split(name))

----------------------------------------------------------------------------
(* inode.py *)

NoNode == [kind |-> "none", links |-> 0, parent |-> None,
           children |-> <<>>, contents |-> <<>>]

\* DirectoryNode(parent): links = 1, ".." is parent or self, no children
NewDirectory(parent) ==
    [kind |-> "dir", links |-> 1, parent |-> parent,
     children |-> <<>>, contents |-> <<>>]

\* FileNode(): links = 1, contents = ""
NewFile == [kind |-> "file", links |-> 1, parent |-> None,
            children |-> <<>>, contents |-> <<>>]

IsDirectory(ns, n) == n # None /\ ns[n].kind = "dir"

IsFile(ns, n) == n # None /\ ns[n].kind = "file"

\* the identity of the next object constructed, None when the bound is reached
Fresh(ns) ==
    IF \E i \in NodeIds : ns[i].kind = "none"
    THEN CHOOSE i \in NodeIds :
            /\ ns[i].kind = "none"
            /\ \A j \in NodeIds : ns[j].kind = "none" => i <= j
    ELSE None

\* position of name in the child table of d, 0 when absent
ChildIndex(ns, d, name) ==
    LET cs == ns[d].children
        hit == {i \in 1 .. Len(cs) : cs[i][1] = name}
    IN IF hit = {} THEN 0 ELSE CHOOSE i \in hit : TRUE

\* self._children.get(name) or self._meta.get(name)
FindChild(ns, d, name) ==
    LET i == ChildIndex(ns, d, name)
    IN IF i # 0 THEN ns[d].children[i][2]
       ELSE IF name = THIS_DIR_NAME THEN d
       ELSE IF name = PARENT_DIR_NAME THEN ns[d].parent
       ELSE None

\* self._children[name] = node
AddChild(ns, d, name, n) ==
    LET i == ChildIndex(ns, d, name)
    IN IF i # 0
       THEN [ns EXCEPT ![d].children[i] = <<name, n>>]
       ELSE [ns EXCEPT ![d].children = Append(@, <<name, n>>)]

\* self._children.pop(name), defined when the name is a real child
DeleteChild(ns, d, name) ==
    LET i == ChildIndex(ns, d, name)
        cs == ns[d].children
    IN [ns EXCEPT ![d].children = SubSeq(cs, 1, i - 1) \o SubSeq(cs, i + 1, Len(cs))]

\* DirectoryNode.__iter__: the real children, in insertion order
Children(ns, d) == ns[d].children

----------------------------------------------------------------------------
(* filesystem.py: the resolvers *)

RECURSIVE GetNodeWalk(_, _, _)
GetNodeWalk(ns, node, parts) ==
    IF parts = <<>> THEN node
    ELSE GetNodeWalk(ns,
                     IF IsDirectory(ns, node)
                     THEN FindChild(ns, node, Head(parts))
                     ELSE node,
                     Tail(parts))

\* FileSystem._get_node
GetNode(ns, name) ==
    IF name = <<>> THEN current
    ELSE GetNodeWalk(ns,
                     IF StartsWithSeparator(name) THEN Root ELSE current,
                     Split(StripRoot(name)))

\* FileSystem._get_node_or_fail
GetNodeOrFail(ns, name) ==
    LET node == GetNode(ns, name)
    IN [node |-> node,
        err |-> IF node = None THEN NoSuchFileOrDirectory ELSE NoError]

\* FileSystem._get_directory_or_fail
GetDirectoryOrFail(ns, name) ==
    LET r == GetNodeOrFail(ns, name)
    IN IF r.err # NoError THEN r
       ELSE IF ~IsDirectory(ns, r.node)
            THEN [node |-> r.node, err |-> NotADirectory]
            ELSE r

RootChain == << <<<<>>, Root>> >>

RECURSIVE ResolveWalk(_, _, _, _)
\* the loop of _resolve_path; path is the list it pops from and appends to
ResolveWalk(ns, node, path, parts) ==
    IF parts = <<>> THEN [path |-> path, err |-> NoError]
    ELSE LET part == Head(parts)
             next == FindChild(ns, node, part)
         IN IF next = None
            THEN [path |-> path, err |-> NoSuchFileOrDirectory]
            ELSE IF IsDirectory(ns, next)
            THEN ResolveWalk(ns, next,
                     IF part = PARENT_DIR_NAME
                     THEN (IF Len(path) > 1 THEN Front(path) ELSE path)
                     ELSE IF part # THIS_DIR_NAME
                          THEN Append(path, <<part, next>>)
                          ELSE path,
                     Tail(parts))
            ELSE ResolveWalk(ns, node, path, Tail(parts))

\* FileSystem._resolve_path.  For a relative name the list walked is
\* self._path_to_current itself: `alias` says that the returned list is that
\* object, `ptc` is its value after the call, `chain` the value returned.
ResolvePath(ns, ptc, name) ==
    IF name = <<>>
    THEN [alias |-> TRUE, chain |-> ptc, ptc |-> ptc, err |-> NoError]
    ELSE IF StartsWithSeparator(name)
    THEN LET w == ResolveWalk(ns, Root, RootChain, Split(StripRoot(name)))
         IN [alias |-> FALSE, chain |-> w.path, ptc |-> ptc, err |-> w.err]
    ELSE LET w == ResolveWalk(ns, current, ptc, Split(name))
         IN [alias |-> TRUE, chain |-> w.path, ptc |-> w.path, err |-> w.err]

\* FileSystem.cwd
CwdString(ptc) ==
    LET s == Join([i \in 1 .. Len(ptc) |-> ptc[i][1]])
    IN IF s = <<>> THEN <<PATH_SEPARATOR>> ELSE s

----------------------------------------------------------------------------
(* Outcomes of a call *)

\* what a call returns: a node, a string, a list of strings or a generator
NoRet == [kind |-> "none", node |-> None, text |-> <<>>, list |-> <<>>]

NodeRet(n) == [kind |-> "node", node |-> n, text |-> <<>>, list |-> <<>>]

TextRet(s) == [kind |-> "text", node |-> None, text |-> s, list |-> <<>>]

ListRet(l) == [kind |-> "list", node |-> None, text |-> <<>>, list |-> l]

\* the generator of FileNode.stream_contents, not yet consumed
GenRet(n) == [kind |-> "generator", node |-> n, text |-> <<>>, list |-> <<>>]

\* the state a call leaves and how it ends; `over` marks a call that needs
\* more than the bounds of the model allow
Outcome(ns, cur, ptc, err, ret) ==
    [nodes |-> ns, current |-> cur, ptc |-> ptc, err |-> err, ret |-> ret,
     over |-> FALSE]

\* the call raises err, the heap being ns
Raise(ns, err) == Outcome(ns, current, path_to_current, err, NoRet)

\* the call returns ret, the heap being ns
Return(ns, ret) == Outcome(ns, current, path_to_current, NoError, ret)

OverBound == [Raise(nodes, NoError) EXCEPT !.over = TRUE]

----------------------------------------------------------------------------
(* filesystem.py: the operations *)

\* cd with the prefix path recorded before the node is looked up and checked
CdOpRecordingFirst(name) ==
    IF name = <<>>
    THEN Outcome(nodes, Root, RootChain, NoError, NoRet)
    ELSE LET p == ResolvePath(nodes, path_to_current, name)
             r == GetNodeOrFail(nodes, name)
         IN IF r.err # NoError THEN Outcome(nodes, current, p.ptc, r.err, NoRet)
            ELSE IF ~IsDirectory(nodes, r.node)
            THEN Outcome(nodes, current, p.ptc, NotADirectory, NoRet)
            ELSE Outcome(nodes, Last(p.chain)[2], p.chain, NoError, NoRet)

\* FileSystem.cd
CdOp(name) ==
    IF name = <<>>
    THEN Outcome(nodes, Root, RootChain, NoError, NoRet)
    ELSE LET r == GetNodeOrFail(nodes, name)
         IN IF r.err # NoError THEN Raise(nodes, r.err)
            ELSE IF ~IsDirectory(nodes, r.node) THEN Raise(nodes, NotADirectory)
            ELSE LET p == ResolvePath(nodes, path_to_current, name)
                 IN IF p.err # NoError
                    THEN Outcome(nodes, current, p.ptc, p.err, NoRet)
                    ELSE Outcome(nodes, Last(p.chain)[2], p.chain, NoError, NoRet)

\* FileSystem.create_file, on heap ns
CreateFileOp(ns, name) ==
    IF GetNode(ns, name) # None THEN Raise(ns, FileExists)
    ELSE LET parent == GetDirectoryOrFail(ns, ParentPath(name))
             f == Fresh(ns)
         IN IF parent.err # NoError THEN Raise(ns, parent.err)
            ELSE IF f = None THEN OverBound
            ELSE Return(AddChild([ns EXCEPT ![f] = NewFile],
                                 parent.node, Requested(name), f),
                        NodeRet(f))

\* FileSystem.touch
TouchOp(name) ==
    LET match == GetNode(nodes, name)
        parent == GetDirectoryOrFail(nodes, ParentPath(name))
        f == Fresh(nodes)
    IN IF match # None THEN Return(nodes, NodeRet(match))
       ELSE IF parent.err # NoError THEN Raise(nodes, parent.err)
       ELSE IF f = None THEN OverBound
       ELSE Return(AddChild([nodes EXCEPT ![f] = NewFile],
                            parent.node, Requested(name), f),
                   NodeRet(f))

\* FileSystem.write_file
WriteFileOp(name, contents) ==
    LET match == GetNode(nodes, name)
        c == CreateFileOp(nodes, name)
    IN IF IsDirectory(nodes, match) THEN Raise(nodes, IsADirectory)
       ELSE IF match # None
       THEN Return([nodes EXCEPT ![match].contents = contents], NodeRet(match))
       ELSE IF c.over \/ c.err # NoError THEN c
       ELSE Return([c.nodes EXCEPT ![c.ret.node].contents = contents], c.ret)

\* FileNode.stream_contents, a generator function: its body runs when the
\* generator gen is first consumed, and yields the characters of the
\* contents that the file has then, in heap ns
StreamContents(ns, gen) == ns[gen.node].contents

\* FileSystem.read_file
ReadFileOp(name, stream) ==
    LET r == GetNodeOrFail(nodes, name)
    IN IF r.err # NoError THEN Raise(nodes, r.err)
       ELSE IF IsDirectory(nodes, r.node) THEN Raise(nodes, IsADirectory)
       ELSE IF stream THEN Return(nodes, GenRet(r.node))
       ELSE Return(nodes, TextRet(nodes[r.node].contents))

\* [child[0] for child in node]
ChildNames(ns, d) == [i \in 1 .. Len(Children(ns, d)) |-> Children(ns, d)[i][1]]

\* FileSystem.ls, show_details = False
LsOp(name) ==
    LET r == IF name # <<>> THEN GetDirectoryOrFail(nodes, name)
             ELSE [node |-> current, err |-> NoError]
    IN IF r.err # NoError THEN Raise(nodes, r.err)
       ELSE Return(nodes, ListRet(ChildNames(nodes, r.node)))

\* FileSystem.ln
LnOp(target, dest) ==
    LET t == GetNodeOrFail(nodes, target)
        parent == GetDirectoryOrFail(nodes, ParentPath(dest))
    IN IF t.err # NoError THEN Raise(nodes, t.err)
       ELSE IF parent.err # NoError THEN Raise(nodes, parent.err)
       ELSE Return(AddChild([nodes EXCEPT ![t.node].links = @ + 1],
                            parent.node, Requested(dest), t.node),
                   NodeRet(t.node))

RECURSIVE CreateTreeWalk(_, _, _)
\* the loop of _create_tree
CreateTreeWalk(ns, node, parts) ==
    IF parts = <<>> THEN [nodes |-> ns, err |-> NoError, over |-> FALSE]
    ELSE IF IsFile(ns, node)
    THEN [nodes |-> ns, err |-> FileExists, over |-> FALSE]
    ELSE LET existing == FindChild(ns, node, Head(parts))
             f == Fresh(ns)
         IN IF existing # None THEN CreateTreeWalk(ns, existing, Tail(parts))
            ELSE IF f = None
            THEN [nodes |-> ns, err |-> NoError, over |-> TRUE]
            ELSE CreateTreeWalk(
                     AddChild([ns EXCEPT ![f] = NewDirectory(node)],
                              node, Head(parts), f),
                     f, Tail(parts))

\* FileSystem._create_tree
CreateTree(ns, name) ==
    CreateTreeWalk(ns,
                   IF StartsWithSeparator(name) THEN Root ELSE current,
                   Split(StripRoot(name)))

\* FileSystem.mkdir
MkdirOp(name, create_intermediates) ==
    LET t == IF create_intermediates
             THEN CreateTree(nodes, ParentPath(name))
             ELSE [nodes |-> nodes, err |-> NoError, over |-> FALSE]
        parent == GetDirectoryOrFail(t.nodes, ParentPath(name))
        f == Fresh(t.nodes)
    IN IF GetNode(nodes, name) # None THEN Raise(nodes, FileExists)
       ELSE IF t.over THEN OverBound
       ELSE IF t.err # NoError THEN Raise(t.nodes, t.err)
       ELSE IF parent.err # NoError THEN Raise(t.nodes, parent.err)
       ELSE IF f = None THEN OverBound
       ELSE Return(AddChild([t.nodes EXCEPT ![f] = NewDirectory(parent.node)],
                            parent.node, Requested(name), f),
                   NodeRet(f))

\* the test of mv, "don't overwrite a file with itself": the two calls of
\* _resolve_path, the one on new's parent first, and the comparison of the
\* lists they return
SameLocation(ns, ptc, old_name, new_name) ==
    LET n == ResolvePath(ns, ptc, ParentPath(new_name))
        o == ResolvePath(ns, n.ptc, ParentPath(old_name))
        left == IF n.alias THEN o.ptc ELSE n.chain
        right == IF o.alias THEN o.ptc ELSE o.chain
    IN [ptc |-> o.ptc,
        err |-> IF n.err # NoError THEN n.err ELSE o.err,
        same |-> left = right /\ Requested(new_name) = Requested(old_name)]

\* FileSystem.mv
MvOp(old_name, new_name) ==
    LET node == GetNodeOrFail(nodes, old_name)
        old_parent == GetDirectoryOrFail(nodes, ParentPath(old_name))
        new_parent == GetDirectoryOrFail(nodes, ParentPath(new_name))
        s == SameLocation(nodes, path_to_current, old_name, new_name)
        added == AddChild(nodes, new_parent.node, Requested(new_name), node.node)
    IN IF node.err # NoError THEN Raise(nodes, node.err)
       ELSE IF old_parent.err # NoError THEN Raise(nodes, old_parent.err)
       ELSE IF new_parent.err # NoError THEN Raise(nodes, new_parent.err)
       ELSE IF s.err # NoError THEN Outcome(nodes, current, s.ptc, s.err, NoRet)
       ELSE IF s.same
       THEN Outcome(nodes, current, s.ptc, NoError, NodeRet(node.node))
       ELSE IF ChildIndex(added, old_parent.node, Requested(old_name)) = 0
       THEN Outcome(added, current, s.ptc, KeyError, NoRet)
       ELSE Outcome(DeleteChild(added, old_parent.node, Requested(old_name)),
                    current, s.ptc, NoError, NodeRet(node.node))

\* FileSystem.rm
RmOp(name, recursive) ==
    LET node == GetNodeOrFail(nodes, name)
        parent == GetDirectoryOrFail(nodes, ParentPath(name))
        dec == [nodes EXCEPT ![node.node].links = @ - 1]
        i == ChildIndex(nodes, parent.node, Requested(name))
    IN IF node.err # NoError THEN Raise(nodes, node.err)
       ELSE IF IsDirectory(nodes, node.node) /\ ~recursive
       THEN Raise(nodes, IsADirectory)
       ELSE IF parent.err # NoError THEN Raise(nodes, parent.err)
       ELSE IF i = 0 THEN Raise(dec, KeyError)
       ELSE Return(DeleteChild(dec, parent.node, Requested(name)),
                   NodeRet(nodes[parent.node].children[i][2]))

\* a walk that takes the oldest entry, as a queue would
PopOldest(stack) == 1

\* nodes.pop(): the index of the entry taken off the stack
PopIndex(stack) == Len(stack)

RECURSIVE PushChildrenAgain(_, _, _)
\* for child in node_obj without the test "child not in visited": every
\* child is pushed, whether seen before or not
PushChildrenAgain(cs, node, w) ==
    IF cs = <<>> THEN w
    ELSE PushChildrenAgain(Tail(cs), node,
             [stack |-> Append(w.stack, Head(cs)),
              visited |-> w.visited \cup {Head(cs)},
              adj |-> Append(w.adj, <<Head(cs), node>>)])

RECURSIVE PushChildren(_, _, _)
\* for child in node_obj: the unvisited children are marked, pushed and
\* entered into adjacency_map, w being <<nodes, visited, adjacency_map>> and
\* adjacency_map the sequence of its <<key, value>> items in insertion order
PushChildren(cs, node, w) ==
    IF cs = <<>> THEN w
    ELSE PushChildren(Tail(cs), node,
             IF Head(cs) \in w.visited THEN w
             ELSE [stack |-> Append(w.stack, Head(cs)),
                   visited |-> w.visited \cup {Head(cs)},
                   adj |-> Append(w.adj, <<Head(cs), node>>)])

RECURSIVE FindWalk(_, _)
\* while nodes: the depth-first walk of find
FindWalk(ns, w) ==
    IF w.stack = <<>> THEN w.adj
    ELSE LET i == PopIndex(w.stack)
             node == w.stack[i]
             popped == [w EXCEPT !.stack = SubSeq(@, 1, i - 1) \o SubSeq(@, i + 1, Len(@))]
         IN FindWalk(ns,
                IF IsDirectory(ns, node[2])
                THEN PushChildren(Children(ns, node[2]), node, popped)
                ELSE popped)

RECURSIVE FindWalkWithin(_, _, _)
\* while nodes: the same loop, given up after `fuel` passes; finished says
\* that the stack was empty before the passes ran out
FindWalkWithin(ns, w, fuel) ==
    IF w.stack = <<>> THEN [finished |-> TRUE, adj |-> w.adj]
    ELSE IF fuel = 0 THEN [finished |-> FALSE, adj |-> w.adj]
    ELSE LET i == PopIndex(w.stack)
             node == w.stack[i]
             popped == [w EXCEPT !.stack = SubSeq(@, 1, i - 1) \o SubSeq(@, i + 1, Len(@))]
         IN FindWalkWithin(ns,
                IF IsDirectory(ns, node[2])
                THEN PushChildren(Children(ns, node[2]), node, popped)
                ELSE popped,
                fuel - 1)

\* visited and nodes of find before its loop
WalkStart(starting_node) ==
    [stack |-> << <<<<>>, starting_node>> >>,
     visited |-> { <<<<>>, starting_node>> },
     adj |-> <<>>]

\* adjacency_map of find, walking from starting_node
AdjacencyMap(ns, starting_node) ==
    FindWalk(ns, [stack |-> << <<<<>>, starting_node>> >>,
                  visited |-> { <<<<>>, starting_node>> },
                  adj |-> <<>>])

\* key in adjacency_map
HasKey(adj, key) == \E i \in 1 .. Len(adj) : adj[i][1] = key

\* adjacency_map[key]
Lookup(adj, key) == adj[CHOOSE i \in 1 .. Len(adj) : adj[i][1] = key][2]

RECURSIVE PathFrom(_, _, _)
\* while parent in adjacency_map: path.insert(0, parent[0]); then once more
PathFrom(adj, parent, path) ==
    IF HasKey(adj, parent)
    THEN PathFrom(adj, Lookup(adj, parent), <<parent[1]>> \o path)
    ELSE <<parent[1]>> \o path

RECURSIVE PathFromWithin(_, _, _, _)
\* while parent in adjacency_map: the same loop, given up after `fuel` passes
PathFromWithin(adj, parent, path, fuel) ==
    IF ~HasKey(adj, parent)
    THEN [finished |-> TRUE, path |-> <<parent[1]>> \o path]
    ELSE IF fuel = 0 THEN [finished |-> FALSE, path |-> path]
    ELSE PathFromWithin(adj, Lookup(adj, parent), <<parent[1]>> \o path, fuel - 1)

NonEmpty(part) == part # <<>>

\* the path find reports for one match
FoundPath(adj, match, relative_to) ==
    LET path == PathFrom(adj, Lookup(adj, match), <<match[1]>>)
        full == IF relative_to # <<>> THEN <<relative_to>> \o path ELSE path
    IN Join(SelectSeq(full, NonEmpty))

IsMatch(item, name) == item[1][1] = name

\* found_paths of find
FoundPaths(ns, starting_node, name, relative_to) ==
    LET adj == AdjacencyMap(ns, starting_node)
        matches == SelectSeq(adj, LAMBDA item : IsMatch(item, name))
    IN [i \in 1 .. Len(matches) |-> FoundPath(adj, matches[i][1], relative_to)]

\* FileSystem.find
FindOp(name, relative_to) ==
    LET r == IF relative_to # <<>> THEN GetNodeOrFail(nodes, relative_to)
             ELSE [node |-> current, err |-> NoError]
    IN IF r.err # NoError THEN Raise(nodes, r.err)
       ELSE Return(nodes, ListRet(FoundPaths(nodes, r.node, name, relative_to)))

\* FileSystem.cwd
CwdOp == Return(nodes, TextRet(CwdString(path_to_current)))

----------------------------------------------------------------------------
(* Inputs *)

Names == { <<"a">>, <<"b">> }

\* "", a, b, a/b, /a, /b, ., .., ../b
Paths ==
    { <<>>,
      <<"a">>, <<"b">>,
      <<"a", "/", "b">>,
      <<"/", "a">>, <<"/", "b">>,
      <<".">>, <<".", ".">>,
      <<".", ".", "/", "b">> }

\* paths given to the creating operations: a, b, a/b, b/b, /b, ../b
NewPaths ==
    { <<"a">>, <<"b">>,
      <<"a", "/", "b">>,
      <<"b", "/", "b">>,
      <<"/", "b">>,
      <<".", ".", "/", "b">> }

\* first arguments of ln and mv: a, b, a/b
Sources == { <<"a">>, <<"b">>, <<"a", "/", "b">> }

\* second arguments of ln and mv: a, b, a/b, /b, /a/b
Dests ==
    { <<"a">>, <<"b">>,
      <<"a", "/", "b">>,
      <<"/", "b">>,
      <<"/", "a", "/", "b">> }

\* arguments of mkdir: create_intermediates is given with a/b and with b
MkdirArgs ==
    (NewPaths \X {FALSE})
    \cup { << <<"a", "/", "b">>, TRUE >>, << <<"b">>, TRUE >> }

Contents == { <<"A">>, <<"B">> }

----------------------------------------------------------------------------
(* The state machine *)

\* FileSystem.__init__
Init ==
    /\ nodes = [i \in NodeIds |-> IF i = Root THEN NewDirectory(Root) ELSE NoNode]
    /\ current = Root
    /\ path_to_current = RootChain
    /\ calls = 0

\* one call of a public method, ending with outcome o: the state it leaves.
\* What the call returns or raises is o.ret and o.err.
Call(o) ==
    /\ calls < MaxCalls
    /\ LET r == o
       IN /\ ~r.over
          /\ calls' = calls + 1
          /\ nodes' = r.nodes
          /\ current' = r.current
          /\ path_to_current' = r.ptc

Cd(name) == Call(CdOp(name))

CreateFile(name) == Call(CreateFileOp(nodes, name))

Touch(name) == Call(TouchOp(name))

WriteFile(name, contents) == Call(WriteFileOp(name, contents))

ReadFile(name, stream) == Call(ReadFileOp(name, stream))

Ls(name) == Call(LsOp(name))

Ln(target, dest) == Call(LnOp(target, dest))

Mkdir(name, create_intermediates) == Call(MkdirOp(name, create_intermediates))

Mv(old_name, new_name) == Call(MvOp(old_name, new_name))

Rm(name, recursive) == Call(RmOp(name, recursive))

Find(name, relative_to) == Call(FindOp(name, relative_to))

Cwd == Call(CwdOp)

Next ==
    \/ \E p \in Paths : Cd(p)
    \/ \E p \in NewPaths : CreateFile(p)
    \/ \E p \in NewPaths : Touch(p)
    \/ \E p \in NewPaths, c \in Contents : WriteFile(p, c)
    \/ \E p \in Paths, s \in BOOLEAN : ReadFile(p, s)
    \/ \E p \in Paths : Ls(p)
    \/ \E t \in Sources, d \in Dests : Ln(t, d)
    \/ \E m \in MkdirArgs : Mkdir(m[1], m[2])
    \/ \E o \in Sources, n \in Dests : Mv(o, n)
    \/ \E p \in Paths, r \in BOOLEAN : Rm(p, r)
    \/ \E n \in Names, r \in Paths : Find(n, r)
    \/ Cwd

Spec == Init /\ [][Next]_vars

----------------------------------------------------------------------------
(* What the claims speak about *)

\* the session state: the chain, the string cwd() returns, the current node
Session(cur, ptc) == <<ptc, CwdString(ptc), cur>>

SameSession(o) == Session(o.current, o.ptc) = Session(current, path_to_current)

\* a call that ended without raising
Succeeds(o) == ~o.over /\ o.err = NoError

Fails(o) == ~o.over /\ o.err # NoError

\* the outcomes of the calls other than cd, on the inputs of Next
OtherOutcomes ==
    {CreateFileOp(nodes, p) : p \in NewPaths}
    \cup {TouchOp(p) : p \in NewPaths}
    \cup {WriteFileOp(p, c) : p \in NewPaths, c \in Contents}
    \cup {ReadFileOp(p, st) : p \in Paths, st \in BOOLEAN}
    \cup {LsOp(p) : p \in Paths}
    \cup {LnOp(t, d) : t \in Sources, d \in Dests}
    \cup {MkdirOp(m[1], m[2]) : m \in MkdirArgs}
    \cup {MvOp(o, n) : o \in Sources, n \in Dests}
    \cup {RmOp(p, r) : p \in Paths, r \in BOOLEAN}
    \cup {FindOp(n, r) : n \in Names, r \in Paths}
    \cup {CwdOp}

\* the directories of heap ns
Directories(ns) == {n \in NodeIds : ns[n].kind = "dir"}

\* the nodes that the real child entries of directory d refer to
ChildNodes(ns, d) == {ns[d].children[i][2] : i \in 1 .. Len(ns[d].children)}

RECURSIVE Below(_, _)
\* the nodes reachable from the nodes of S through real child entries, S included
Below(ns, S) ==
    LET T == S \cup UNION {ChildNodes(ns, d) : d \in S \cap Directories(ns)}
    IN IF T = S THEN S ELSE Below(ns, T)

\* the (directory, position) child entries of the tree under the root
TreeEntries(ns) ==
    {e \in (Below(ns, {Root}) \cap Directories(ns)) \X (1 .. MaxNodes + MaxCalls) :
        e[2] <= Len(ns[e[1]].children)}

\* the number of child entries of the tree that refer to n
EntryCount(ns, n) ==
    Cardinality({e \in TreeEntries(ns) : ns[e[1]].children[e[2]][2] = n})

\* the components of a path, the leading "/" of an absolute path apart
Components(p) == Split(StripRoot(p))

\* where the walk of path p starts: the root for an absolute path
Anchor(p) == IF StartsWithSeparator(p) THEN Root ELSE current

\* the directory that the parent of path p resolves to in heap ns: the
\* components before the last one, walked from the anchor of p
ParentOf(ns, p) == GetNodeWalk(ns, Anchor(p), Front(Components(p)))

\* the final component of path p
FinalName(p) == Last(Components(p))

\* every child table but that of the directories of D is the same in ns2 as in ns1
OtherTablesSame(ns1, ns2, D) ==
    \A n \in Directories(ns1) \ D : ns2[n].children = ns1[n].children

SameTables(ns1, ns2) == OtherTablesSame(ns1, ns2, {})

SameLinks(ns1, ns2) == \A n \in NodeIds : ns2[n].links = ns1[n].links

SameContents(ns1, ns2) ==
    \A n \in NodeIds : ns1[n].kind = "file" => ns2[n].contents = ns1[n].contents

NotNamed(entry, name) == entry[1] # name

\* the child table cs without its entry for name
Without(cs, name) == SelectSeq(cs, LAMBDA entry : NotNamed(entry, name))

----------------------------------------------------------------------------
(* C1 *)

\* C1: in every reachable state and for every path, a cd that fails leaves
\* the current path chain, the string cwd() returns and the current directory
\* node exactly as they were before the call.
CdIsAtomic ==
    \A p \in Paths : Fails(CdOp(p)) => SameSession(CdOp(p))

\* the case of test_cd_is_atomic: from a directory below the root, cd("../b")
\* walks up through ".." and then fails on the missing b
CdFailsBelowRoot ==
    /\ current # Root
    /\ Len(path_to_current) > 1
    /\ CdOp(<<".", ".", "/", "b">>).err = NoSuchFileOrDirectory

(* C2 *)

\* C2: every operation other than cd, whether it succeeds or fails, leaves the
\* current path chain, the string cwd() returns and the current directory node
\* as they were before the call.
OnlyCdNavigates ==
    \A o \in OtherOutcomes : ~o.over => SameSession(o)

(* C3 *)

\* C3: every inode other than the root that is reachable from the root
\* through real child entries has a link count equal to the number of child
\* entries of the tree that refer to it.
LinkCountInvariant ==
    \A n \in Below(nodes, {Root}) \ {Root} : nodes[n].links = EntryCount(nodes, n)

(* C4 *)

\* a call with an absolute path p that hands back a node has put or found it
\* under the final name of p in the directory that the parent of p resolves
\* to from the root, and has changed no other child table
PlacedFromRoot(o, p, also) ==
    Succeeds(o) =>
        /\ IsDirectory(nodes, ParentOf(nodes, p))
        /\ FindChild(o.nodes, ParentOf(nodes, p), FinalName(p)) = o.ret.node
        /\ OtherTablesSame(nodes, o.nodes, {ParentOf(nodes, p)} \cup also)

\* C4: for every operation that takes a path and every path that starts with
\* "/", a single-component one such as /b included, the parent directory
\* whose child table is read or changed is the one resolved from the root,
\* whatever the current directory is.
AbsolutePathsAnchored ==
    /\ \A p \in {q \in NewPaths : StartsWithSeparator(q)} :
        /\ PlacedFromRoot(MkdirOp(p, FALSE), p, {})
        /\ PlacedFromRoot(CreateFileOp(nodes, p), p, {})
        /\ PlacedFromRoot(TouchOp(p), p, {})
        /\ \A c \in Contents : PlacedFromRoot(WriteFileOp(p, c), p, {})
    /\ \A p \in {q \in Dests : StartsWithSeparator(q)}, t \in Sources :
        /\ PlacedFromRoot(LnOp(t, p), p, {})
        /\ Succeeds(MvOp(t, p)) =>
                OtherTablesSame(nodes, MvOp(t, p).nodes,
                                {ParentOf(nodes, p), ParentOf(nodes, t)})
    /\ \A p \in {q \in Paths : StartsWithSeparator(q)} :
        /\ \A r \in BOOLEAN :
            Succeeds(RmOp(p, r)) =>
                /\ ChildIndex(RmOp(p, r).nodes, ParentOf(nodes, p), FinalName(p)) = 0
                /\ OtherTablesSame(nodes, RmOp(p, r).nodes, {ParentOf(nodes, p)})
        /\ Succeeds(LsOp(p)) =>
                LsOp(p).ret.list
                    = ChildNames(nodes, GetNodeWalk(nodes, Root, Components(p)))
        /\ Succeeds(ReadFileOp(p, FALSE)) =>
                ReadFileOp(p, FALSE).ret.text
                    = nodes[GetNodeWalk(nodes, Root, Components(p))].contents

(* C5 *)

\* C5: after a successful mv(old, new) in which new's resolved parent
\* directory or final name differs from old's, the inode that old resolved to
\* is the child named by new's final component in new's parent directory,
\* old's parent directory has no entry named by old's final component, and mv
\* returns that inode.
MvMovesTheEntry ==
    \A o \in Sources, n \in Dests :
        (/\ Succeeds(MvOp(o, n))
         /\ \/ ParentOf(nodes, n) # ParentOf(nodes, o)
            \/ FinalName(n) # FinalName(o))
        => /\ IsDirectory(nodes, ParentOf(nodes, n))
           /\ FindChild(MvOp(o, n).nodes, ParentOf(nodes, n), FinalName(n))
                = GetNode(nodes, o)
           /\ ChildIndex(MvOp(o, n).nodes, ParentOf(nodes, o), FinalName(o)) = 0
           /\ MvOp(o, n).ret.node = GetNode(nodes, o)

(* C6 *)

\* C6: whenever old and new resolve to the same parent directory node and
\* have the same final component, however the two paths are spelled,
\* mv(old, new) leaves every child table and link count unchanged and the node
\* is still reachable at old afterwards.
MvOntoItselfIsNoOp ==
    \A o \in Sources, n \in Dests :
        (/\ GetNode(nodes, o) # None
         /\ IsDirectory(nodes, ParentOf(nodes, o))
         /\ ParentOf(nodes, n) = ParentOf(nodes, o)
         /\ FinalName(n) = FinalName(o)
         /\ ~MvOp(o, n).over)
        => /\ SameTables(nodes, MvOp(o, n).nodes)
           /\ SameLinks(nodes, MvOp(o, n).nodes)
           /\ GetNode(MvOp(o, n).nodes, o) = GetNode(nodes, o)

(* C7 *)

\* C7: after ln(target, dest) succeeds, dest and target resolve to the
\* identical inode, ln returns that inode, whose contents and children are
\* therefore the same under both names, and its link count is one more than
\* before the call.
LnAliases ==
    \A t \in Sources, d \in Dests :
        Succeeds(LnOp(t, d)) =>
            /\ GetNode(LnOp(t, d).nodes, d) = GetNode(nodes, t)
            /\ GetNode(LnOp(t, d).nodes, t) = GetNode(nodes, t)
            /\ LnOp(t, d).ret.node = GetNode(nodes, t)
            /\ LnOp(t, d).nodes[GetNode(nodes, t)].links
                = nodes[GetNode(nodes, t)].links + 1
            /\ SameContents(nodes, LnOp(t, d).nodes)

(* C8 *)

\* C8: a successful rm(path) removes the entry named by path's final
\* component from the directory that path's parent resolves to and decrements
\* by one the link count of the inode path resolved to; no other entry of any
\* directory changes, no other link count and no contents change.
RmRemovesOneEntry ==
    \A p \in Paths, r \in BOOLEAN :
        Succeeds(RmOp(p, r)) =>
            LET d == ParentOf(nodes, p)
                n == GetNode(nodes, p)
                after == RmOp(p, r).nodes
            IN /\ IsDirectory(nodes, d)
               /\ ChildIndex(nodes, d, FinalName(p)) # 0
               /\ after[d].children = Without(nodes[d].children, FinalName(p))
               /\ OtherTablesSame(nodes, after, {d})
               /\ after[n].links = nodes[n].links - 1
               /\ \A m \in NodeIds \ {n} : after[m].links = nodes[m].links
               /\ SameContents(nodes, after)

(* C9 *)

\* the child entries, as <<directory, position>>, of the directories of D
EntriesOf(ns, D) ==
    {e \in (D \cap Directories(ns)) \X (1 .. MaxNodes + MaxCalls) :
        e[2] <= Len(ns[e[1]].children)}

\* no directory is reachable from start by more than one path
IsTreeBelow(ns, start) ==
    LET S == Below(ns, {start})
    IN \A d \in S \cap Directories(ns) :
        Cardinality({e \in EntriesOf(ns, S) : ns[e[1]].children[e[2]][2] = d})
            = IF d = start THEN 0 ELSE 1

RECURSIVE EntryPaths(_, _, _, _)
\* the child entries below directory d, from its i-th on, each as the
\* sequence of names that leads to it from the search root
EntryPaths(ns, d, i, prefix) ==
    IF i > Len(ns[d].children) THEN <<>>
    ELSE LET c == ns[d].children[i]
             here == Append(prefix, c[1])
         IN <<here>>
            \o (IF IsDirectory(ns, c[2]) THEN EntryPaths(ns, c[2], 1, here) ELSE <<>>)
            \o EntryPaths(ns, d, i + 1, prefix)

EndsWith(names, name) == Last(names) = name

\* the paths find is to return: one for every entry below start named name
ExpectedPaths(ns, start, name, relative_to) ==
    LET all == IF IsDirectory(ns, start) THEN EntryPaths(ns, start, 1, <<>>) ELSE <<>>
        hits == SelectSeq(all, LAMBDA names : EndsWith(names, name))
    IN [i \in 1 .. Len(hits) |->
            IF relative_to # <<>>
            THEN relative_to \o <<PATH_SEPARATOR>> \o Join(hits[i])
            ELSE Join(hits[i])]

Range(seq) == {seq[i] : i \in 1 .. Len(seq)}

\* C9: in any tree in which no directory is reachable from the search root by
\* more than one path, find(name, relative_to) returns exactly one path for
\* every real child entry below the search root whose name equals name, and
\* nothing else; files with hard links of the same name in different
\* directories are included.
FindIsCompleteAndSound ==
    \A n \in Names, r \in Paths :
        LET start == IF r # <<>> THEN GetNode(nodes, r) ELSE current
            expected == ExpectedPaths(nodes, start, n, r)
            found == FindOp(n, r).ret.list
        IN (Succeeds(FindOp(n, r)) /\ IsTreeBelow(nodes, start))
           => /\ Len(found) = Len(expected)
              /\ Range(found) = Range(expected)

(* C10 *)

RECURSIVE Discover(_, _, _)
RECURSIVE DiscoverEach(_, _, _, _)
\* a depth-first walk told by recursion: handling an entry discovers its
\* unvisited children in insertion order, then handles them from the most
\* recently discovered one back, each with everything below it, before the
\* walk returns to older entries.  The result is the <<entry, parent>> pairs
\* in discovery order and the entries visited.
Discover(ns, node, visited) ==
    IF ~IsDirectory(ns, node[2]) THEN [order |-> <<>>, visited |-> visited]
    ELSE LET fresh == SelectSeq(Children(ns, node[2]), LAMBDA c : c \notin visited)
         IN DiscoverEach(ns, fresh, Len(fresh),
                [order |-> [i \in 1 .. Len(fresh) |-> <<fresh[i], node>>],
                 visited |-> visited \cup Range(fresh)])

DiscoverEach(ns, fresh, i, acc) ==
    IF i = 0 THEN acc
    ELSE LET r == Discover(ns, fresh[i], acc.visited)
         IN DiscoverEach(ns, fresh, i - 1,
                [order |-> acc.order \o r.order, visited |-> r.visited])

DiscoveryOrder(ns, start) ==
    Discover(ns, <<<<>>, start>>, { <<<<>>, start>> }).order

\* the matches of name in a discovery order, each with the path that leads
\* to it
MatchesIn(order, name, relative_to) ==
    LET matches == SelectSeq(order, LAMBDA item : IsMatch(item, name))
    IN [i \in 1 .. Len(matches) |-> FoundPath(order, matches[i][1], relative_to)]

\* the tree of test_find: /a/b/c/d/e, a file, and /a/b/e, a directory made
\* after c
TestFindHeap ==
    [i \in 0 .. 6 |->
        CASE i = 0 -> [NewDirectory(0) EXCEPT !.children = << <<<<"a">>, 1>> >>]
          [] i = 1 -> [NewDirectory(0) EXCEPT !.children = << <<<<"b">>, 2>> >>]
          [] i = 2 -> [NewDirectory(1) EXCEPT
                          !.children = << <<<<"c">>, 3>>, <<<<"e">>, 6>> >>]
          [] i = 3 -> [NewDirectory(2) EXCEPT !.children = << <<<<"d">>, 4>> >>]
          [] i = 4 -> [NewDirectory(3) EXCEPT !.children = << <<<<"e">>, 5>> >>]
          [] i = 5 -> NewFile
          [] OTHER -> NewDirectory(2)]

\* C10: find returns its matches in the order in which their entries are
\* first discovered by a depth-first walk that takes the most recently pushed
\* entry and pushes a directory's children in insertion order; on the tree of
\* test_find, find("e") from the root returns a/b/e and then a/b/c/d/e.
FindOrderIsLifoDiscovery ==
    /\ \A r \in Paths :
        LET start == IF r # <<>> THEN GetNode(nodes, r) ELSE current
            order == DiscoveryOrder(nodes, start)
        IN \A n \in Names :
            LET o == FindOp(n, r)
            IN Succeeds(o) => o.ret.list = MatchesIn(order, n, r)
    /\ FoundPaths(TestFindHeap, Root, <<"e">>, <<>>)
        = << <<"a", "/", "b", "/", "e">>,
             <<"a", "/", "b", "/", "c", "/", "d", "/", "e">> >>

\* two directories a and b made in that order, each with an entry b: the walk
\* reports b, then the entry below b, the directory pushed last, then a's
FindReportsLastPushedFirst ==
    /\ current = Root
    /\ FindOp(<<"b">>, <<>>).ret.list
        = << <<"b">>, <<"b", "/", "b">>, <<"a", "/", "b">> >>

----------------------------------------------------------------------------
(* C11 *)

\* every child table of ns1 is in ns2 as it was or with entries appended
TablesOnlyGrow(ns1, ns2) ==
    \A d \in Directories(ns1) :
        /\ Len(ns2[d].children) >= Len(ns1[d].children)
        /\ SubSeq(ns2[d].children, 1, Len(ns1[d].children)) = ns1[d].children

\* the heap is the same but for objects constructed since
SameTree(ns1, ns2) == SameTables(ns1, ns2) /\ SameLinks(ns1, ns2)

\* the calls that create at path p
Creations(p) ==
    {MkdirOp(p, FALSE), MkdirOp(p, TRUE), CreateFileOp(nodes, p), TouchOp(p)}

\* C11: whenever path already resolves to a node, mkdir(path) and
\* create_file(path) fail with FileExists and touch(path) returns that node
\* without error, no child table and no link count changing; a creation
\* replaces no existing entry, and the path given to a successful touch
\* resolves to the node it returned, so that a second touch returns it again.
CreationNeverReplaces ==
    \A p \in NewPaths :
        /\ GetNode(nodes, p) # None =>
            /\ \A o \in {MkdirOp(p, FALSE), MkdirOp(p, TRUE), CreateFileOp(nodes, p)} :
                o.err = FileExists /\ SameTree(nodes, o.nodes)
            /\ Succeeds(TouchOp(p))
            /\ TouchOp(p).ret.node = GetNode(nodes, p)
            /\ SameTree(nodes, TouchOp(p).nodes)
        /\ \A o \in Creations(p) : Succeeds(o) => TablesOnlyGrow(nodes, o.nodes)
        /\ Succeeds(TouchOp(p)) => GetNode(TouchOp(p).nodes, p) = TouchOp(p).ret.node

----------------------------------------------------------------------------
(* C12 *)

\* the number of child entries of all the directories of heap ns
EntryTotal(ns) == Cardinality(EntriesOf(ns, Directories(ns)))

RECURSIVE MissingFrom(_, _, _)
\* the number of the components parts, walked from node, that do not exist
MissingFrom(ns, node, parts) ==
    IF parts = <<>> THEN 0
    ELSE IF IsDirectory(ns, node) /\ FindChild(ns, node, Head(parts)) # None
    THEN MissingFrom(ns, FindChild(ns, node, Head(parts)), Tail(parts))
    ELSE Len(parts)

\* the objects of heap ns1 have in ns2 the link counts they had
LinksKept(ns1, ns2) ==
    \A n \in NodeIds : ns1[n].kind # "none" => ns2[n].links = ns1[n].links

\* the number of objects of heap ns
ObjectCount(ns) == Cardinality({n \in NodeIds : ns[n].kind # "none"})

\* C12: for any path that does not yet exist, mkdir(path,
\* create_intermediates=true) adds one new directory for each missing
\* ancestor component and one for the final component, each under its proper
\* parent, and adds no other entry to any directory; without
\* create_intermediates a missing ancestor makes mkdir fail with
\* NoSuchFileOrDirectory and nothing is created.
MkdirCreatesOnlyMissing ==
    \A p \in NewPaths :
        LET missing == MissingFrom(nodes, Anchor(p), Components(p))
            with == MkdirOp(p, TRUE)
            without == MkdirOp(p, FALSE)
        IN missing > 0 =>
            /\ Succeeds(with) =>
                /\ TablesOnlyGrow(nodes, with.nodes)
                /\ LinksKept(nodes, with.nodes)
                /\ EntryTotal(with.nodes) = EntryTotal(nodes) + missing
                /\ ObjectCount(with.nodes) = ObjectCount(nodes) + missing
                /\ IsDirectory(with.nodes, with.ret.node)
                /\ GetNodeWalk(with.nodes, Anchor(p), Components(p)) = with.ret.node
            /\ (missing > 1 /\ ~without.over) =>
                /\ without.err = NoSuchFileOrDirectory
                /\ without.nodes = nodes

----------------------------------------------------------------------------
(* C13 *)

\* a component of path p that is not the last one resolves to a file
FileInMiddle(ns, p) ==
    \E k \in 1 .. Len(Components(p)) - 1 :
        IsFile(ns, GetNodeWalk(ns, Anchor(p), SubSeq(Components(p), 1, k)))

\* the call raised NotADirectory and left the heap as it was
RefusedAsNotADirectory(o) == o.err = NotADirectory /\ o.nodes = nodes

\* the call raised and left the heap as it was
Refused(o) == Fails(o) /\ o.nodes = nodes

\* C13: for every operation (cd, ls, read_file, write_file, touch, ln, mv,
\* rm), a path in which a component that is not the last one resolves to a
\* file fails with NotADirectory, and the operation neither returns nor
\* modifies that file.
FileInMiddleIsAnError ==
    \A p \in Paths \cup NewPaths \cup Dests :
        FileInMiddle(nodes, p) =>
            /\ RefusedAsNotADirectory(CdOp(p))
            /\ RefusedAsNotADirectory(LsOp(p))
            /\ \A s \in BOOLEAN : RefusedAsNotADirectory(ReadFileOp(p, s))
            /\ \A c \in Contents : RefusedAsNotADirectory(WriteFileOp(p, c))
            /\ RefusedAsNotADirectory(TouchOp(p))
            /\ \A r \in BOOLEAN : RefusedAsNotADirectory(RmOp(p, r))
            /\ \A d \in Dests : Refused(LnOp(p, d)) /\ Refused(MvOp(p, d))
            /\ \A t \in Sources : Refused(LnOp(t, p)) /\ Refused(MvOp(t, p))

----------------------------------------------------------------------------
(* C14 *)

\* the names no real child may have: ".", ".." and the empty string
ReservedNames == {THIS_DIR_NAME, PARENT_DIR_NAME, <<>>}

\* C14: after any sequence of public operations, no directory has a real
\* child whose name is ".", ".." or the empty string, so ls never lists such
\* a name.
NoReservedChildNames ==
    /\ \A d \in Directories(nodes) :
        \A i \in 1 .. Len(nodes[d].children) :
            nodes[d].children[i][1] \notin ReservedNames
    /\ \A p \in Paths :
        Succeeds(LsOp(p)) =>
            \A i \in 1 .. Len(LsOp(p).ret.list) :
                LsOp(p).ret.list[i] \notin ReservedNames

----------------------------------------------------------------------------
(* C15 *)

\* the four kinds of error of the file system
PyFSErrors == {NoSuchFileOrDirectory, NotADirectory, IsADirectory, FileExists}

\* C15: every failure of a public operation, for any path argument
\* (including ".", "..", the empty path and absolute paths), is reported as
\* one of NoSuchFileOrDirectory, NotADirectory, IsADirectory or FileExists.
ErrorsAreOfTheFourKinds ==
    \A o \in OtherOutcomes \cup {CdOp(p) : p \in Paths} :
        Fails(o) => o.err \in PyFSErrors

----------------------------------------------------------------------------
(* C16 *)

\* first arguments of mv and rm that are absolute or reserved, besides Sources
MoreSources == Sources \cup { <<"/", "a">>, <<".">> }

\* C16: if mv, ln or rm fails for any reason, the tree is exactly as before
\* the call: no child entry has been added, replaced or removed and no link
\* count has changed.
FailureLeavesTreeAlone ==
    /\ \A t \in MoreSources, d \in Dests :
        /\ Fails(MvOp(t, d)) => SameTree(nodes, MvOp(t, d).nodes)
        /\ Fails(LnOp(t, d)) => SameTree(nodes, LnOp(t, d).nodes)
    /\ \A p \in Paths, r \in BOOLEAN :
        Fails(RmOp(p, r)) => SameTree(nodes, RmOp(p, r).nodes)

----------------------------------------------------------------------------
(* C17 *)

\* C17: rm(path) where path resolves to a directory and recursive is false
\* fails with IsADirectory and changes nothing; with recursive=true it
\* succeeds and the directory is no longer listed in its parent, while the
\* other entries of the parent keep their relative order.
RmOfDirectoryNeedsRecursive ==
    \A p \in Paths :
        IsDirectory(nodes, GetNode(nodes, p)) =>
            /\ RmOp(p, FALSE).err = IsADirectory
            /\ RmOp(p, FALSE).nodes = nodes
            /\ Succeeds(RmOp(p, TRUE))
            /\ RmOp(p, TRUE).nodes[ParentOf(nodes, p)].children
                = Without(nodes[ParentOf(nodes, p)].children, FinalName(p))
            /\ ChildIndex(nodes, ParentOf(nodes, p), FinalName(p)) # 0

----------------------------------------------------------------------------
(* C18 *)

\* C18: in every reachable state the current path chain is non-empty and its
\* first entry is the empty name paired with the root node; a fresh file
\* system reports cwd "/", cd("..") at the root leaves cwd "/", and cd with
\* no argument from anywhere resets cwd to "/".
RootIdentity ==
    /\ Len(path_to_current) >= 1
    /\ path_to_current[1] = << <<>>, Root >>
    /\ calls = 0 => CwdOp.ret.text = <<PATH_SEPARATOR>>
    /\ current = Root =>
        /\ Succeeds(CdOp(PARENT_DIR_NAME))
        /\ CwdString(CdOp(PARENT_DIR_NAME).ptc) = <<PATH_SEPARATOR>>
        /\ Len(CdOp(PARENT_DIR_NAME).ptc) = 1
    /\ Succeeds(CdOp(<<>>))
    /\ CdOp(<<>>).ptc = RootChain
    /\ CdOp(<<>>).current = Root

----------------------------------------------------------------------------
(* C19 *)

\* the names of the chain after its first entry
ChainNames(ptc) == [i \in 1 .. Len(ptc) - 1 |-> ptc[i + 1][1]]

\* the current directory is where the names of the chain lead from the root
Attached == GetNodeWalk(nodes, Root, ChainNames(path_to_current)) = current

\* C19: the path "/" resolves to the root directory itself, so from any
\* current directory cd("/") succeeds and sets cwd to "/", ls("/") lists the
\* root's children, and cd(cwd()) succeeds and leaves cwd unchanged whenever
\* the current directory is still attached to the tree.
SlashNamesTheRoot ==
    /\ Succeeds(CdOp(<<PATH_SEPARATOR>>))
    /\ CdOp(<<PATH_SEPARATOR>>).current = Root
    /\ CwdString(CdOp(<<PATH_SEPARATOR>>).ptc) = <<PATH_SEPARATOR>>
    /\ Succeeds(LsOp(<<PATH_SEPARATOR>>))
    /\ LsOp(<<PATH_SEPARATOR>>).ret.list = ChildNames(nodes, Root)
    /\ Attached =>
        /\ Succeeds(CdOp(CwdString(path_to_current)))
        /\ SameSession(CdOp(CwdString(path_to_current)))

----------------------------------------------------------------------------
(* C20 *)

\* C20: the sequence returned by read_file(path, stream=true) yields, in
\* order, the characters of the file's contents as they were when read_file
\* was called; a write_file to the same file made after that call but before
\* the sequence is first consumed does not change what the sequence yields.
StreamIsSnapshot ==
    \A p \in Paths, q \in NewPaths, c \in Contents :
        LET r == ReadFileOp(p, TRUE)
            w == WriteFileOp(q, c)
        IN (Succeeds(r) /\ Succeeds(w)) =>
            /\ r.ret.kind = "generator"
            /\ StreamContents(nodes, r.ret) = nodes[r.ret.node].contents
            /\ StreamContents(w.nodes, r.ret) = nodes[r.ret.node].contents

----------------------------------------------------------------------------
(* C21 *)

\* a directory of heap ns is reachable from itself through child entries
HasCycle(ns) ==
    \E d \in Below(ns, {Root}) \cap Directories(ns) : d \in Below(ns, ChildNodes(ns, d))

\* the passes the walk may need: one for the search root and one for every
\* child entry of the heap
WalkBound(ns) == 1 + EntryTotal(ns)

\* C21: in every reachable tree, including trees in which hard links to
\* directories form cycles, both the stack-based walk and the reverse-pointer
\* path reconstruction of find finish, and find returns a finite list.
FindTerminates ==
    \A r \in Paths :
        LET start == IF r # <<>> THEN GetNode(nodes, r) ELSE current
            w == FindWalkWithin(nodes, WalkStart(start), WalkBound(nodes))
        IN start # None =>
            /\ w.finished
            /\ w.adj = AdjacencyMap(nodes, start)
            /\ \A i \in 1 .. Len(w.adj) :
                LET p == PathFromWithin(w.adj, Lookup(w.adj, w.adj[i][1]),
                                        <<w.adj[i][1][1]>>, Len(w.adj))
                IN /\ p.finished
                   /\ p.path = PathFrom(w.adj, Lookup(w.adj, w.adj[i][1]),
                                        <<w.adj[i][1][1]>>)
            /\ \A n \in Names :
                /\ Succeeds(FindOp(n, r))
                /\ Len(FindOp(n, r).ret.list) <= Len(w.adj)

\* a directory is linked below itself and find, from the root, reports an
\* entry found through it
FindWalksACycle ==
    /\ HasCycle(nodes)
    /\ current = Root
    /\ \E n \in Names :
        /\ Succeeds(FindOp(n, <<>>))
        /\ \E i \in 1 .. Len(FindOp(n, <<>>).ret.list) :
            Len(Split(FindOp(n, <<>>).ret.list[i])) >= 2

----------------------------------------------------------------------------
(* C22 *)

\* C22: in every reachable state and for every path on which cd succeeds,
\* the directory that becomes current (the node of the last entry of the
\* committed chain) is the node that the lookup resolver returns for that
\* path from the state before the cd, so ls() after cd(path) returns the
\* same names as ls(path) did before it, also for paths that use "..".
ResolversAgree ==
    \A p \in Paths \ {<<>>} :
        Succeeds(CdOp(p)) =>
            /\ CdOp(p).current = Last(CdOp(p).ptc)[2]
            /\ CdOp(p).current = GetNode(nodes, p)
            /\ Succeeds(LsOp(p))
            /\ ChildNames(CdOp(p).nodes, CdOp(p).current) = LsOp(p).ret.list

====
